---- MODULE Spec2Model ----
(***************************************************************************)
(* Header/schema detector of CLaiMM (claimm_mcp/header_detector.py):       *)
(* HeaderDetector.detect_headers and the CSV and spreadsheet paths under   *)
(* it, with the remote server as the environment.                          *)
(*                                                                         *)
(* Text is a sequence of characters, a character is a one-character        *)
(* string; characters that TLA+ cannot write are named tokens ("<NUL>").   *)
(* Bytes on the wire are tokens too: an ASCII byte is its character, the   *)
(* two bytes of U+00E9 are "<C3>" and "<A9>".                              *)
(***************************************************************************)
EXTENDS Integers, Sequences, FiniteSets, TLC

----------------------------------------------------------------------------
(* Python values *)

\* None where the other values are one-character strings (delimiter)
None == "<None>"
\* None where the other values are texts (format)
NoneText == <<"<None>">>
\* None where the other values are workbooks
NoWorkbook == << >>

Min(S) == CHOOSE x \in S : \A y \in S : x <= y
Max(S) == CHOOSE x \in S : \A y \in S : x >= y

\* variant: the slice takes the element at its end index too
Slice_InclusiveEnd(s, a, b) ==
    LET hi == IF b + 1 > Len(s) THEN Len(s) ELSE b + 1
    IN  IF a >= hi THEN << >> ELSE SubSeq(s, a + 1, hi)

\* s[a:b] of Python for 0 <= a, as a sequence (0-based half-open slice)
Slice(s, a, b) ==
    LET hi == IF b > Len(s) THEN Len(s) ELSE b
    IN  IF a >= hi THEN << >> ELSE SubSeq(s, a + 1, hi)

----------------------------------------------------------------------------
(* Bytes and characters: response.text and str.encode("utf-8") *)

E_ACUTE == "<U+00E9>"
REPLACEMENT == "<U+FFFD>"
NUL == "<NUL>"

\* httpx Response.text: UTF-8 decoding with errors="replace"
\* (the model's only multi-byte sequence is C3 A9)
DecodeAt(b, i) ==
    CASE b[i] = "<C3>" -> IF i < Len(b) /\ b[i + 1] = "<A9>" THEN E_ACUTE ELSE REPLACEMENT
      [] b[i] = "<A9>" -> IF i > 1 /\ b[i - 1] = "<C3>" THEN "<skip>" ELSE REPLACEMENT
      [] OTHER -> b[i]

response_text(b) ==
    LET marked == [i \in 1..Len(b) |-> DecodeAt(b, i)]
        Keep(c) == c # "<skip>"
    IN  SelectSeq(marked, Keep)

\* number of bytes of one character in UTF-8
Utf8Width(c) ==
    CASE c = E_ACUTE -> 2
      [] c = REPLACEMENT -> 3
      [] OTHER -> 1

\* len(content.encode("utf-8"))
Utf8Len(s) ==
    LET IsTwo(c) == c = E_ACUTE
        IsThree(c) == c = REPLACEMENT
    IN  Len(s) + Len(SelectSeq(s, IsTwo)) + 2 * Len(SelectSeq(s, IsThree))

----------------------------------------------------------------------------
(* str methods used by the detector *)

\* str.isspace() of one character
IsSpace(c) == c \in {" ", "\t", "\n", "\r"}

\* str.strip(): from the first to the last character that is not a space
\* (lead and trail count the spaces removed at either end)
strip(s) ==
    LET n == Len(s)
    IN  IF \A i \in 1..n : IsSpace(s[i]) THEN << >>
        ELSE LET lead == CHOOSE k \in 0..(n - 1) :
                             ~IsSpace(s[k + 1]) /\ \A j \in 1..k : IsSpace(s[j])
                 trail == CHOOSE k \in 0..(n - 1) :
                              ~IsSpace(s[n - k]) /\ \A j \in (n - k + 1)..n : IsSpace(s[j])
             IN  SubSeq(s, lead + 1, n - trail)

\* s.split("\n")[0]: the text before the first newline
FirstLine(s) ==
    IF \A i \in 1..Len(s) : s[i] # "\n" THEN s
    ELSE SubSeq(s, 1, Min({i \in 1..Len(s) : s[i] = "\n"}) - 1)

\* len(s.split("\n")): split never returns an empty list
SplitCount(s) == Cardinality({i \in 1..Len(s) : s[i] = "\n"}) + 1

\* str.count(d) for a one-character d
count(line, d) == Cardinality({i \in 1..Len(line) : line[i] = d})

UpperChar(c) ==
    CASE c = "c" -> "C" [] c = "s" -> "S" [] c = "v" -> "V" [] c = "x" -> "X"
      [] c = "l" -> "L" [] c = "m" -> "M" [] c = "t" -> "T" [] c = "p" -> "P"
      [] c = "d" -> "D" [] c = "f" -> "F"
      [] OTHER -> c

\* str.upper()
upper(s) == [i \in 1..Len(s) |-> UpperChar(s[i])] \o << >>

LowerChar(c) ==
    CASE c = "T" -> "t" [] c = "R" -> "r" [] c = "U" -> "u" [] c = "E" -> "e"
      [] c = "F" -> "f" [] c = "A" -> "a" [] c = "L" -> "l" [] c = "S" -> "s"
      [] c = "Y" -> "y" [] c = "N" -> "n" [] c = "O" -> "o" [] c = "I" -> "i"
      [] OTHER -> c

\* str.lower()
lower(s) == [i \in 1..Len(s) |-> LowerChar(s[i])] \o << >>

----------------------------------------------------------------------------
(* csv.reader(io.StringIO(content), delimiter=delimiter) of CPython:        *)
(* dialect excel (quotechar '"', doublequote, not strict, no escapechar).   *)
(* StringIO yields the lines of content, each with its "\n"; the reader     *)
(* feeds the characters of a line and then an end-of-line signal, and       *)
(* yields a row whenever that leaves it at the start of a record.           *)

START_RECORD == "START_RECORD"
START_FIELD == "START_FIELD"
IN_FIELD == "IN_FIELD"
IN_QUOTED_FIELD == "IN_QUOTED_FIELD"
QUOTE_IN_QUOTED_FIELD == "QUOTE_IN_QUOTED_FIELD"
EAT_CRNL == "EAT_CRNL"
READER_ERROR == "READER_ERROR"

QUOTECHAR == "\""

ReaderInit == [st |-> START_RECORD, field |-> << >>, fields |-> << >>, rows |-> << >>]

\* parse_save_field
SaveField(r) == [r EXCEPT !.fields = Append(r.fields, r.field), !.field = << >>]

\* parse_add_char, for a run of characters
AddChars(r, cs) == [r EXCEPT !.field = r.field \o cs]

\* parse_process_char for one character c of a line
ProcessChar(r, c, d) ==
    LET st == IF r.st = START_RECORD /\ c \notin {"\n", "\r"} THEN START_FIELD ELSE r.st
    IN  CASE st = START_RECORD -> [r EXCEPT !.st = EAT_CRNL]
          [] st = START_FIELD ->
                IF c \in {"\n", "\r"} THEN [SaveField(r) EXCEPT !.st = EAT_CRNL]
                ELSE IF c = QUOTECHAR THEN [r EXCEPT !.st = IN_QUOTED_FIELD]
                ELSE IF c = d THEN [SaveField(r) EXCEPT !.st = START_FIELD]
                ELSE [AddChars(r, <<c>>) EXCEPT !.st = IN_FIELD]
          [] st = IN_FIELD ->
                IF c \in {"\n", "\r"} THEN [SaveField(r) EXCEPT !.st = EAT_CRNL]
                ELSE IF c = d THEN [SaveField(r) EXCEPT !.st = START_FIELD]
                ELSE AddChars(r, <<c>>)
          [] st = IN_QUOTED_FIELD ->
                IF c = QUOTECHAR THEN [r EXCEPT !.st = QUOTE_IN_QUOTED_FIELD]
                ELSE AddChars(r, <<c>>)
          [] st = QUOTE_IN_QUOTED_FIELD ->
                IF c = QUOTECHAR THEN [AddChars(r, <<c>>) EXCEPT !.st = IN_QUOTED_FIELD]
                ELSE IF c = d THEN [SaveField(r) EXCEPT !.st = START_FIELD]
                ELSE IF c \in {"\n", "\r"} THEN [SaveField(r) EXCEPT !.st = EAT_CRNL]
                ELSE [AddChars(r, <<c>>) EXCEPT !.st = IN_FIELD]
          [] st = EAT_CRNL ->
                IF c \in {"\n", "\r"} THEN r ELSE [r EXCEPT !.st = READER_ERROR]
          [] OTHER -> r

\* parse_process_char for the end-of-line signal, then Reader_iternext's test
\* "state == START_RECORD": the record is complete and is yielded
ProcessEol(r) ==
    LET e == CASE r.st \in {START_FIELD, IN_FIELD, QUOTE_IN_QUOTED_FIELD} ->
                      [SaveField(r) EXCEPT !.st = START_RECORD]
               [] r.st = EAT_CRNL -> [r EXCEPT !.st = START_RECORD]
               [] OTHER -> r
    IN  IF e.st = START_RECORD
        THEN [e EXCEPT !.rows = Append(e.rows, e.fields), !.fields = << >>]
        ELSE e

\* Reader_iternext at the end of the input: a record still open (inside a
\* quoted field) is yielded with the field read so far
ProcessEof(r) ==
    IF r.st = IN_QUOTED_FIELD \/ Len(r.field) # 0
    THEN LET e == SaveField(r)
         IN  [e EXCEPT !.rows = Append(e.rows, e.fields), !.fields = << >>,
                       !.st = START_RECORD]
    ELSE r

\* first position >= i of a character the state machine does not just append
NextSpecial(s, i, d) ==
    LET Special(j) == s[j] \in {"\n", "\r", QUOTECHAR, d}
    IN  IF \A j \in i..Len(s) : ~Special(j) THEN Len(s) + 1
        ELSE Min({j \in i..Len(s) : Special(j)})

RECURSIVE ReaderRun(_, _, _, _)
ReaderRun(s, d, i, r) ==
    IF r.st = READER_ERROR THEN r
    ELSE IF i > Len(s)
    THEN ProcessEof(IF Len(s) > 0 /\ s[Len(s)] # "\n" THEN ProcessEol(r) ELSE r)
    ELSE IF r.st \in {IN_FIELD, IN_QUOTED_FIELD} /\ s[i] \notin {"\n", "\r", QUOTECHAR, d}
    THEN \* a run of ordinary characters is appended to the field in one step
         LET j == NextSpecial(s, i, d)
         IN  ReaderRun(s, d, j, AddChars(r, SubSeq(s, i, j - 1)))
    ELSE LET p == ProcessChar(r, s[i], d)
         IN  ReaderRun(s, d, i + 1,
                       IF s[i] = "\n" /\ p.st # READER_ERROR THEN ProcessEol(p) ELSE p)

\* list(csv.reader(io.StringIO(content), delimiter=delimiter)): the rows, or
\* the csv.Error raised. rejectsNul: CPython before 3.11 raises
\* "line contains NUL" on a line that holds a NUL character.
csv_reader(content, delimiter, rejectsNul) ==
    IF rejectsNul /\ \E i \in 1..Len(content) : content[i] = NUL
    THEN [ok |-> FALSE, error |-> "line contains NUL"]
    ELSE LET r == ReaderRun(content, delimiter, 1, ReaderInit)
         IN  IF r.st = READER_ERROR
             THEN [ok |-> FALSE, error |-> "new-line character seen in unquoted field"]
             ELSE [ok |-> TRUE, rows |-> r.rows]

----------------------------------------------------------------------------
(* float(v) of Python: does the text parse as a number *)

Digits == {"0", "1", "2", "3", "4", "5", "6", "7", "8", "9"}

\* one step of the grammar  [sign] digits [. digits] [e [sign] digits],
\* digits being decimal digits with single underscores between them
FloatStep(q, c) ==
    CASE q = "S0" /\ c \in Digits -> "INT"
      [] q = "S0" /\ c = "." -> "DOT"
      [] q = "INT" /\ c \in Digits -> "INT"
      [] q = "INT" /\ c = "_" -> "INT_"
      [] q = "INT" /\ c = "." -> "FRAC0"
      [] q = "INT" /\ c \in {"e", "E"} -> "EXP0"
      [] q = "INT_" /\ c \in Digits -> "INT"
      [] q = "DOT" /\ c \in Digits -> "FRAC"
      [] q = "FRAC0" /\ c \in Digits -> "FRAC"
      [] q = "FRAC0" /\ c \in {"e", "E"} -> "EXP0"
      [] q = "FRAC" /\ c \in Digits -> "FRAC"
      [] q = "FRAC" /\ c = "_" -> "FRAC_"
      [] q = "FRAC" /\ c \in {"e", "E"} -> "EXP0"
      [] q = "FRAC_" /\ c \in Digits -> "FRAC"
      [] q = "EXP0" /\ c \in {"+", "-"} -> "EXPS"
      [] q = "EXP0" /\ c \in Digits -> "EXP"
      [] q = "EXPS" /\ c \in Digits -> "EXP"
      [] q = "EXP" /\ c \in Digits -> "EXP"
      [] q = "EXP" /\ c = "_" -> "EXP_"
      [] q = "EXP_" /\ c \in Digits -> "EXP"
      [] OTHER -> "REJECT"

RECURSIVE FloatRun(_, _, _)
FloatRun(s, i, q) ==
    IF q = "REJECT" THEN FALSE
    ELSE IF i > Len(s) THEN q \in {"INT", "FRAC0", "FRAC", "EXP"}
    ELSE FloatRun(s, i + 1, FloatStep(q, s[i]))

\* float(v) does not raise ValueError
IsFloat(v) ==
    LET t == strip(v)
        u == IF Len(t) > 0 /\ t[1] \in {"+", "-"} THEN Tail(t) ELSE t
    IN  \/ lower(u) \in {<<"i", "n", "f">>, <<"n", "a", "n">>,
                         <<"i", "n", "f", "i", "n", "i", "t", "y">>}
        \/ FloatRun(u, 1, "S0")

----------------------------------------------------------------------------
(* HeaderDetector: the CSV path's pure part *)

\* str.replace(",", "")
RemoveCommas(v) == LET NotComma(c) == c # "," IN SelectSeq(v, NotComma)

Contains(v, c) == \E i \in 1..Len(v) : v[i] = c

\* variant: the one-letter spellings are missing
bool_values_WordsOnly ==
    { <<"t", "r", "u", "e">>, <<"f", "a", "l", "s", "e">>, <<"y", "e", "s">>,
      <<"n", "o">>, <<"1">>, <<"0">> }

bool_values ==
    { <<"t", "r", "u", "e">>, <<"f", "a", "l", "s", "e">>, <<"y", "e", "s">>,
      <<"n", "o">>, <<"1">>, <<"0">>, <<"t">>, <<"f">>, <<"y">>, <<"n">> }

\* float(v.strip().replace(",", "")) does not raise
IsNumeric(v) == IsFloat(RemoveCommas(strip(v)))

\* variant: only the decimal point makes a float
HasPointOrExponent_PointOnly(v) ==
    LET u == RemoveCommas(strip(v))
    IN  Contains(u, ".")

\* "." in v or "e" in v.lower(), of the stripped value without commas
HasPointOrExponent(v) ==
    LET u == RemoveCommas(strip(v))
    IN  Contains(u, ".") \/ Contains(lower(u), "e")

\* variant: the boolean test comes before the numeric test
_infer_type_BooleanFirst(values) ==
    LET idx == 1..Len(values)
        numeric_count == Cardinality({i \in idx : IsNumeric(values[i])})
        float_count == Cardinality({i \in idx : IsNumeric(values[i]) /\
                                                 HasPointOrExponent(values[i])})
    IN  IF Len(values) = 0 THEN [type |-> "unknown", metadata |-> << >>]
        ELSE IF \A i \in idx : strip(lower(values[i])) \in bool_values
        THEN [type |-> "boolean", metadata |-> << >>]
        ELSE IF numeric_count = Len(values)
        THEN IF float_count > 0
             THEN [type |-> "float", metadata |-> [precision |-> "double"]]
             ELSE [type |-> "integer", metadata |-> << >>]
        ELSE IF \A i \in idx : Contains(values[i], "-") \/ Contains(values[i], "/")
        THEN IF \E i \in idx : Contains(values[i], ":")
             THEN [type |-> "datetime", metadata |-> << >>]
             ELSE [type |-> "date", metadata |-> << >>]
        ELSE [type |-> "string",
              metadata |-> [max_length |-> Max({Len(values[i]) : i \in idx})]]

\* HeaderDetector._infer_type
_infer_type(values) ==
    LET idx == 1..Len(values)
        numeric_count == Cardinality({i \in idx : IsNumeric(values[i])})
        float_count == Cardinality({i \in idx : IsNumeric(values[i]) /\
                                                 HasPointOrExponent(values[i])})
    IN  IF Len(values) = 0 THEN [type |-> "unknown", metadata |-> << >>]
        ELSE IF numeric_count = Len(values)
        THEN IF float_count > 0
             THEN [type |-> "float", metadata |-> [precision |-> "double"]]
             ELSE [type |-> "integer", metadata |-> << >>]
        ELSE IF \A i \in idx : Contains(values[i], "-") \/ Contains(values[i], "/")
        THEN IF \E i \in idx : Contains(values[i], ":")
             THEN [type |-> "datetime", metadata |-> << >>]
             ELSE [type |-> "date", metadata |-> << >>]
        ELSE IF \A i \in idx : strip(lower(values[i])) \in bool_values
        THEN [type |-> "boolean", metadata |-> << >>]
        ELSE [type |-> "string",
              metadata |-> [max_length |-> Max({Len(values[i]) : i \in idx})]]

\* row[i] if i < len(row) else ""   (i is 1-based here)
CellAt(row, i) == IF i <= Len(row) THEN row[i] ELSE << >>

\* variant: a cell of spaces counts as a value
NonBlank_NoStrip(v) == v # << >>

\* v.strip() is truthy
NonBlank(v) == strip(v) # << >>

\* variant: without sample rows a column is reported as a string
_detect_column_types_StringDefault(headers, sample_rows) ==
    IF Len(sample_rows) = 0
    THEN [i \in 1..Len(headers) |-> [name |-> headers[i], type |-> "string"]]
    ELSE [i \in 1..Len(headers) |->
            LET cells == [k \in 1..Len(sample_rows) |-> CellAt(sample_rows[k], i)]
                values == SelectSeq(cells, NonBlank)
                col_type == _infer_type(values)
            IN  [name |-> headers[i],
                 type |-> col_type.type,
                 nullable |-> \E k \in 1..Len(cells) : ~NonBlank(cells[k]),
                 sample_values |-> Slice(values, 0, 3)] @@ col_type.metadata]

\* variant: one entry per cell of the first sample row instead of per header
_detect_column_types_BySampleWidth(headers, sample_rows) ==
    IF Len(sample_rows) = 0
    THEN [i \in 1..Len(headers) |-> [name |-> headers[i], type |-> "unknown"]]
    ELSE [i \in 1..Len(sample_rows[1]) |->
            LET cells == [k \in 1..Len(sample_rows) |-> CellAt(sample_rows[k], i)]
                values == SelectSeq(cells, NonBlank)
                col_type == _infer_type(values)
            IN  [name |-> CellAt(headers, i),
                 type |-> col_type.type,
                 nullable |-> \E k \in 1..Len(cells) : ~NonBlank(cells[k]),
                 sample_values |-> Slice(values, 0, 3)] @@ col_type.metadata]

\* HeaderDetector._detect_column_types
_detect_column_types(headers, sample_rows) ==
    IF Len(sample_rows) = 0
    THEN [i \in 1..Len(headers) |-> [name |-> headers[i], type |-> "unknown"]]
    ELSE [i \in 1..Len(headers) |->
            LET cells == [k \in 1..Len(sample_rows) |-> CellAt(sample_rows[k], i)]
                values == SelectSeq(cells, NonBlank)
                col_type == _infer_type(values)
            IN  [name |-> headers[i],
                 type |-> col_type.type,
                 nullable |-> \E k \in 1..Len(cells) : ~NonBlank(cells[k]),
                 sample_values |-> Slice(values, 0, 3)] @@ col_type.metadata]

\* the candidates in the order of the delimiters list
delimiters == <<",", "\t", ";", "|">>

\* variant: a tie goes to the last candidate that has the highest count
_detect_delimiter_LastWins(line) ==
    LET counts == [k \in 1..Len(delimiters) |-> count(line, delimiters[k])]
        best == Max({counts[k] : k \in 1..Len(delimiters)})
    IN  IF best > 0
        THEN delimiters[Max({k \in 1..Len(delimiters) : counts[k] = best})]
        ELSE ","

\* HeaderDetector._detect_delimiter: max() returns the first key that has the
\* highest count
_detect_delimiter(line) ==
    LET counts == [k \in 1..Len(delimiters) |-> count(line, delimiters[k])]
        best == Max({counts[k] : k \in 1..Len(delimiters)})
    IN  IF best > 0
        THEN delimiters[Min({k \in 1..Len(delimiters) : counts[k] = best})]
        ELSE ","

\* HeaderDetector._parse_csv_content; delimiter is None or one character
_parse_csv_content(content, resource_id, delimiter, partial, rejectsNul) ==
    LET stripped == strip(content)
        d == IF delimiter = None THEN _detect_delimiter(FirstLine(stripped)) ELSE delimiter
        parsed == csv_reader(content, d, rejectsNul)
    IN  IF SplitCount(stripped) = 0 \* "if not lines"
        THEN [success |-> FALSE, error |-> <<"Empty content">>, resource_id |-> resource_id]
        ELSE IF ~parsed.ok
        THEN [success |-> FALSE, error |-> <<"CSV parse error: ", parsed.error>>,
              resource_id |-> resource_id]
        ELSE IF Len(parsed.rows) = 0
        THEN [success |-> FALSE, error |-> <<"No rows parsed">>, resource_id |-> resource_id]
        ELSE LET rows == parsed.rows
                 headers == rows[1]
                 sample_rows == IF Len(rows) > 1 THEN Slice(rows, 1, 6) ELSE << >>
             IN  [success |-> TRUE,
                  resource_id |-> resource_id,
                  partial_download |-> partial,
                  bytes_fetched |-> Utf8Len(content),
                  delimiter |-> d,
                  column_count |-> Len(headers),
                  headers |-> headers,
                  column_types |-> _detect_column_types(headers, sample_rows),
                  sample_rows |-> sample_rows,
                  rows_sampled |-> Len(sample_rows)]

----------------------------------------------------------------------------
(* The spreadsheet path's pure part.  A workbook is a sequence of sheets    *)
(* [name, rows]; a cell is a tagged value.                                  *)

\* the value of an empty cell (Python None)
NoneCell == [k |-> "none"]
IntCell(n) == [k |-> "int", v |-> n]
BoolCell(b) == [k |-> "bool", v |-> b]
StrCell(t) == [k |-> "str", v |-> t]

\* bool(c) of a cell value
Truthy(c) ==
    CASE c.k = "none" -> FALSE
      [] c.k = "int" -> c.v # 0
      [] c.k = "bool" -> c.v
      [] OTHER -> Len(c.v) > 0

\* str(c) of a cell value (integers 0..9 suffice for the model's workbooks)
str(c) ==
    CASE c.k = "none" -> <<"N", "o", "n", "e">>
      [] c.k = "int" -> << <<"0", "1", "2", "3", "4", "5", "6", "7", "8", "9">>[c.v + 1] >>
      [] c.k = "bool" -> IF c.v THEN <<"T", "r", "u", "e">> ELSE <<"F", "a", "l", "s", "e">>
      [] OTHER -> c.v

\* str(c) if c else ""
CellText(c) == IF Truthy(c) THEN str(c) ELSE << >>

RowText(row) == [j \in 1..Len(row) |-> CellText(row[j])]

\* list(ws.iter_rows(max_row=6, values_only=True))
iter_rows(ws, max_row) == Slice(ws.rows, 0, max_row)

\* the entry of one sheet in the result's "sheets"
SheetEntry(ws) ==
    LET rows == iter_rows(ws, 6)
        sample == Slice(rows, 1, 6)
    IN  [headers |-> RowText(rows[1]),
         column_count |-> Len(rows[1]),
         sample_rows |-> [k \in 1..Len(sample) |-> RowText(sample[k])]]

\* the loop over wb.sheetnames: sheets without rows get no entry
Sheets(wb) ==
    LET HasRows(ws) == Len(iter_rows(ws, 6)) > 0
        kept == SelectSeq(wb, HasRows)
    IN  [names |-> [k \in 1..Len(kept) |-> kept[k].name],
         entries |-> [n \in {kept[k].name : k \in 1..Len(kept)} |->
                        SheetEntry(kept[CHOOSE k \in 1..Len(kept) : kept[k].name = n])]]

----------------------------------------------------------------------------
(* The remote server (the environment) *)

csv_fetch_bytes == 8192
xlsx_fetch_bytes == 65536

RESOURCE_ID == "r1"

\* A file on the server: its bytes are head, then pad filler bytes "x", then
\* tail; wb is the workbook the bytes encode, NoWorkbook for any other file.
Data(file) == file.head \o [i \in 1..file.pad |-> "x"] \o file.tail

FileSize(file) == Len(file.head) + file.pad + Len(file.tail)

\* a file without filler
Plain(bytes) == [head |-> bytes, pad |-> 0, tail |-> << >>, wb |-> NoWorkbook]

\* a file of the given size, filled between head and tail
Sized(h, t, size, w) == [head |-> h, pad |-> size - Len(h) - Len(t), tail |-> t, wb |-> w]

TABLE == <<"a", ",", "b", "\n", "1", ",", "2", "\n">>
E_ACUTE_BYTES == <<"<C3>", "<A9>">>

\* the body of three lines that the documentation gives as its example
EXAMPLE_BODY ==
    <<"n", "a", "m", "e", ",", "y", "e", "a", "r", ",", "q", "t", "y", "\n",
      "L", "i", "t", "h", "i", "u", "m", ",", "2", "0", "2", "3", ",", "5", "0", "0", "\n",
      "C", "o", "b", "a", "l", "t", ",", "2", "0", "2", "2", ",", "3", "0", "0", ".", "5", "\n">>

SmallTextFiles ==
    { Plain(<< >>),
      Plain(EXAMPLE_BODY),
      Plain(<<"\n">>),
      Plain(<<" ", "\n">>),
      Plain(TABLE),
      Plain(<<"a", ";", "b", "\n", "1", ";", "2">>),
      Plain(<<"\n", "a", ",", "b", "\n">>),
      Plain(<<"a", "\r", "b", "\n">>),
      Plain(E_ACUTE_BYTES \o <<",", "<A9>", "\n", "\"", "x">>) }

\* one byte below, at and above the CSV budget; a file whose characters fit
\* the budget and whose bytes do not; a file with a two-byte character across
\* the end of the requested range
LargeTextFiles ==
    { Sized(TABLE, << >>, csv_fetch_bytes - 1, NoWorkbook),
      Sized(TABLE, << >>, csv_fetch_bytes, NoWorkbook),
      Sized(TABLE, << >>, csv_fetch_bytes + 1, NoWorkbook),
      Sized(E_ACUTE_BYTES \o <<"\n">>, << >>, csv_fetch_bytes + 1, NoWorkbook),
      Sized(TABLE, E_ACUTE_BYTES, csv_fetch_bytes + 1, NoWorkbook) }

TextFiles == SmallTextFiles \cup LargeTextFiles

Book1 ==
    <<[name |-> "Sheet1",
       rows |-> << <<StrCell(<<"i", "d">>), StrCell(<<"o", "k">>)>>,
                   <<IntCell(1), BoolCell(TRUE)>>,
                   <<IntCell(0), BoolCell(FALSE)>>,
                   <<NoneCell, StrCell(<<"a">>)>> >>]>>

Book2 ==
    <<[name |-> "Empty", rows |-> << >>],
      [name |-> "Data", rows |-> << <<StrCell(<<"a">>)>> >>]>>

\* the leading bytes of a zip archive: "PK", 03, 04, then the version field
ZIP_MAGIC == <<"P", "K", "<03>", "<04>", "<14>", NUL>>

\* sizes: below the CSV budget, and at and one byte above the spreadsheet budget
WorkbookFiles ==
    { Sized(ZIP_MAGIC, << >>, csv_fetch_bytes - 1, Book1),
      Sized(ZIP_MAGIC, << >>, xlsx_fetch_bytes, Book2),
      Sized(ZIP_MAGIC, << >>, xlsx_fetch_bytes + 1, Book1) }

Files == TextFiles \cup WorkbookFiles

\* GET download_url with "Range: bytes=0-{budget-1}"
Request(resource_id, budget) ==
    [url |-> <<"https://edx.netl.doe.gov/resource/", resource_id, "/download">>,
     range |-> <<0, budget - 1>>]

ExceptionTexts == {"All connection attempts failed"}
ErrorStatuses == {204, 404}

\* What "await client.get(...)" can produce for a request: an exception, an
\* error status, 206 with exactly the requested range, or 200 with the whole
\* file when the server ignores Range.
Outcomes(file, request) ==
    { [kind |-> "exception", text |-> e] : e \in ExceptionTexts }
    \cup { [kind |-> "response", status_code |-> st, content |-> << >>] : st \in ErrorStatuses }
    \cup { [kind |-> "response", status_code |-> 206,
            content |-> Slice(Data(file), request.range[1], request.range[2] + 1)],
           [kind |-> "response", status_code |-> 200, content |-> Data(file)] }

\* what the call observed of the fetch (kept for the properties): the
\* exception, or the status and the size of the body
Observed(outcome) ==
    IF outcome.kind = "exception" THEN outcome
    ELSE [kind |-> "response", status_code |-> outcome.status_code,
          nbytes |-> Len(outcome.content)]

\* openpyxl.load_workbook(io.BytesIO(content)): the archive opens only when
\* the bytes are the complete file of a workbook (the zip directory is at the
\* end of the archive)
load_workbook(content, file) ==
    IF file.wb # NoWorkbook /\ Len(content) = FileSize(file) /\ content = Data(file)
    THEN [ok |-> TRUE, wb |-> file.wb]
    ELSE [ok |-> FALSE, error |-> "File is not a zip file"]

----------------------------------------------------------------------------
(* HeaderDetector: the two paths, from the outcome of their fetch on *)

\* no value yet (the Python variable is unbound)
NoResult == [unset |-> TRUE]
NotSeen == [kind |-> "none"]

Failure(error, resource_id) ==
    [success |-> FALSE, error |-> error, resource_id |-> resource_id]

\* variant: every 2xx status is parsed
CsvStatusParsed_Any2xx(status_code) == status_code \in {200, 204, 206}

\* detect_csv_headers: the branch on response.status_code that leads to
\* _parse_csv_content (206 or 200); every other status returns "HTTP <status>"
CsvStatusParsed(status_code) == status_code \in {206, 200}

\* detect_csv_headers: content, per status
CsvContent(status_code, text) ==
    IF status_code = 206 THEN text ELSE Slice(text, 0, csv_fetch_bytes)

\* variant: every parsed response counts as partial
CsvPartial_Always(status_code, text) == TRUE

\* detect_csv_headers: partial, per status
CsvPartial(status_code, text) ==
    IF status_code = 206 THEN TRUE ELSE Len(text) > csv_fetch_bytes

\* does detect_csv_headers reach _parse_csv_content for this outcome
CsvParses(outcome) ==
    outcome.kind = "response" /\ CsvStatusParsed(outcome.status_code)

\* detect_csv_headers: the content that goes to _parse_csv_content
CsvText(outcome) == CsvContent(outcome.status_code, response_text(outcome.content))

\* HeaderDetector.detect_csv_headers after "await client.get(...)"
detect_csv_headers(resource_id, delimiter, outcome, rejectsNul) ==
    IF outcome.kind = "exception"
    THEN Failure(<<outcome.text>>, resource_id)
    ELSE IF CsvStatusParsed(outcome.status_code)
    THEN _parse_csv_content(CsvText(outcome), resource_id, delimiter,
                            CsvPartial(outcome.status_code, response_text(outcome.content)),
                            rejectsNul)
    ELSE Failure(<<"HTTP ", outcome.status_code>>, resource_id)

\* variant: only a 200 response is parsed
XlsxStatusParsed_OnlyOk(status_code) == status_code = 200

\* detect_xlsx_headers: "response.status_code in [200, 206]"
XlsxStatusParsed(status_code) == status_code \in {200, 206}

\* detect_xlsx_headers: content = response.content
XlsxContent(response) == response.content

\* does detect_xlsx_headers reach openpyxl.load_workbook for this outcome
XlsxParses(outcome) ==
    outcome.kind = "response" /\ XlsxStatusParsed(outcome.status_code)

\* HeaderDetector.detect_xlsx_headers after "await client.get(...)"
detect_xlsx_headers(resource_id, outcome, file) ==
    IF outcome.kind = "exception"
    THEN Failure(<<outcome.text>>, resource_id)
    ELSE IF XlsxStatusParsed(outcome.status_code)
    THEN LET content == XlsxContent(outcome)
             opened == load_workbook(content, file)
         IN  IF opened.ok
             THEN LET sheets == Sheets(opened.wb)
                  IN  [success |-> TRUE,
                       resource_id |-> resource_id,
                       format |-> "XLSX",
                       bytes_fetched |-> Len(content),
                       sheets |-> sheets.entries,
                       sheet_names |-> sheets.names]
             ELSE [success |-> FALSE,
                   error |-> <<"Excel parse error (may need full file): ", opened.error>>,
                   resource_id |-> resource_id,
                   bytes_fetched |-> Len(content),
                   suggestion |->
                       "Excel files often require full download for reliable parsing"]
    ELSE Failure(<<"HTTP ", outcome.status_code>>, resource_id)

----------------------------------------------------------------------------
(* HeaderDetector.detect_headers *)

CSV == <<"C", "S", "V">>
XLSX == <<"X", "L", "S", "X">>
XLS == <<"X", "L", "S">>
XLSM == <<"X", "L", "S", "M">>

\* the format arguments the callers pass
FormatArgs ==
    { NoneText, << >>, <<"c", "s", "v">>, XLSX, <<"x", "l", "s">>, XLSM,
      <<"T", "S", "V">>, <<"p", "d", "f">> }

\* format = (format or "").upper()
NormalFormat(arg) == IF arg = NoneText THEN << >> ELSE upper(arg)

\* variant: the CSV path is tried for every format
TakesCsvPath_Always(format) == TRUE

\* "format == "CSV" or not format"
TakesCsvPath(format) == format = CSV \/ format = << >>

\* variant: only an explicit CSV returns the CSV result
ReturnsCsvResult_ExplicitOnly(format, result) == format = CSV

\* variant: only a successful CSV result is returned
ReturnsCsvResult_SuccessOnly(format, result) == result.success

\* "result["success"] or format == "CSV"": the CSV result is returned
ReturnsCsvResult(format, result) == result.success \/ format = CSV

\* variant: everything that is not CSV is taken for a spreadsheet
TakesXlsxPath_AnyOther(format) == format # CSV

\* "format in ["XLSX", "XLS", "XLSM"] or not format"
TakesXlsxPath(format) == format \in {XLSX, XLS, XLSM} \/ format = << >>

Unsupported(format, resource_id) ==
    Failure(<<"Unsupported format: ", format>>, resource_id)

\* HeaderDetector.detect_headers as a whole, from what the fetch of either
\* path produces
detect_headers(resource_id, format_arg, csv_outcome, xlsx_outcome, served) ==
    LET fmt == NormalFormat(format_arg)
        csv == detect_csv_headers(resource_id, None, csv_outcome, FALSE)
    IN  IF TakesCsvPath(fmt) /\ ReturnsCsvResult(fmt, csv) THEN csv
        ELSE IF TakesXlsxPath(fmt) THEN detect_xlsx_headers(resource_id, xlsx_outcome, served)
        ELSE Unsupported(fmt, resource_id)

VARIABLES
    file,         \* the file the server holds for the resource
    pc,           \* where the detect_headers call is
    arg,          \* the format argument of the call
    requests,     \* the HTTP requests the call has issued, in order
    csv_seen,     \* what the CSV path's fetch produced, unset before
    xlsx_seen,    \* what the spreadsheet path's fetch produced, unset before
    parsed,       \* the paths whose parser has run in the call
    content,      \* the text handed to _parse_csv_content, empty before
    csv_result,   \* what detect_csv_headers returned, unset before
    xlsx_result,  \* what detect_xlsx_headers returned, unset before
    result        \* what detect_headers returned, unset before

vars == <<file, pc, arg, requests, csv_seen, xlsx_seen, parsed, content,
          csv_result, xlsx_result, result>>

format == NormalFormat(arg)

CsvRequest == Request(RESOURCE_ID, csv_fetch_bytes)
XlsxRequest == Request(RESOURCE_ID, xlsx_fetch_bytes)

Init ==
    /\ file \in Files
    /\ pc = "idle"
    /\ arg = NoneText
    /\ requests = << >>
    /\ csv_seen = NotSeen
    /\ xlsx_seen = NotSeen
    /\ parsed = {}
    /\ content = << >>
    /\ csv_result = NoResult
    /\ xlsx_result = NoResult
    /\ result = NoResult

\* detect_headers from the second "if" on: the spreadsheet path's request is
\* sent, or the call returns "Unsupported format"
EnterXlsxOrReturn(fmt) ==
    IF TakesXlsxPath(fmt)
    THEN /\ requests' = Append(requests, XlsxRequest)
         /\ pc' = "xlsx_fetch"
         /\ result' = NoResult
    ELSE /\ requests' = requests
         /\ pc' = "returned"
         /\ result' = Unsupported(fmt, RESOURCE_ID)

\* detect_headers is called: up to the first await
DetectHeaders(a) ==
    /\ pc = "idle"
    /\ arg' = a
    /\ IF TakesCsvPath(NormalFormat(a))
       THEN /\ requests' = Append(requests, CsvRequest)
            /\ pc' = "csv_fetch"
            /\ result' = NoResult
       ELSE EnterXlsxOrReturn(NormalFormat(a))
    /\ UNCHANGED <<file, csv_seen, xlsx_seen, parsed, content, csv_result, xlsx_result>>

\* a text that holds NUL parses or raises, by the CPython version
NulChoices(outcome) ==
    IF outcome.kind = "response" /\ \E i \in 1..Len(outcome.content) : outcome.content[i] = NUL
    THEN BOOLEAN ELSE {FALSE}

\* the CSV path's fetch completes: the rest of detect_csv_headers, then
\* detect_headers up to its return or its next await
CsvFetched ==
    /\ pc = "csv_fetch"
    /\ \E outcome \in Outcomes(file, requests[Len(requests)]) :
        \E rejectsNul \in NulChoices(outcome) :
          /\ LET r == detect_csv_headers(RESOURCE_ID, None, outcome, rejectsNul)
             IN  /\ csv_result' = r
                 /\ IF ReturnsCsvResult(format, r)
                    THEN /\ result' = r
                         /\ pc' = "returned"
                         /\ requests' = requests
                    ELSE EnterXlsxOrReturn(format)
          /\ csv_seen' = Observed(outcome)
          /\ parsed' = IF CsvParses(outcome) THEN parsed \cup {"csv"} ELSE parsed
          /\ content' = IF CsvParses(outcome) THEN CsvText(outcome) ELSE content
    /\ UNCHANGED <<file, arg, xlsx_seen, xlsx_result>>

\* the spreadsheet path's fetch completes: the rest of detect_xlsx_headers,
\* whose result detect_headers returns
XlsxFetched ==
    /\ pc = "xlsx_fetch"
    /\ \E outcome \in Outcomes(file, requests[Len(requests)]) :
          /\ LET r == detect_xlsx_headers(RESOURCE_ID, outcome, file)
             IN  /\ xlsx_result' = r
                 /\ result' = r
          /\ xlsx_seen' = Observed(outcome)
          /\ parsed' = IF XlsxParses(outcome) THEN parsed \cup {"xlsx"} ELSE parsed
    /\ pc' = "returned"
    /\ UNCHANGED <<file, arg, requests, csv_seen, content, csv_result>>

\* the caller takes the result; the detector keeps nothing of the call
Returned ==
    /\ pc = "returned"
    /\ pc' = "idle"
    /\ arg' = NoneText
    /\ requests' = << >>
    /\ csv_seen' = NotSeen
    /\ xlsx_seen' = NotSeen
    /\ parsed' = {}
    /\ content' = << >>
    /\ csv_result' = NoResult
    /\ xlsx_result' = NoResult
    /\ result' = NoResult
    /\ UNCHANGED file

Next ==
    \/ \E a \in FormatArgs : DetectHeaders(a)
    \/ CsvFetched
    \/ XlsxFetched
    \/ Returned

Spec == Init /\ [][Next]_vars

----------------------------------------------------------------------------
(* _parse_csv_content on its own: every text of up to MaxLen characters *)

MaxLen == 4

CsvAlphabet == {"a", "1", ",", ";", "\n", "\r", " ", "\""}

RECURSIVE Texts(_)
Texts(n) ==
    IF n = 0 THEN {<< >>}
    ELSE LET shorter == Texts(n - 1)
         IN  shorter \cup {Append(t, c) : t \in {u \in shorter : Len(u) = n - 1},
                                          c \in CsvAlphabet}

\* eight rows whose sample rows are shorter and longer than the header row
RAGGED_BODY ==
    <<"h", ",", "k", ",", "m", "\n", "1", "\n", "0", ",", "2", "\n", "3", ",", "4", ",", "5", ",", "6", "\n",
      " ", "\n", "7", ",", "8", "\n", "9", ",", ",", "x", "\n", "y", ",", "z", ",", "\n">>

\* longer contents, beside every short one
SampleTexts == {EXAMPLE_BODY, RAGGED_BODY}

InitCsv ==
    /\ content \in Texts(MaxLen) \cup SampleTexts
    /\ pc = "content"
    /\ file = Plain(<< >>)
    /\ arg = NoneText
    /\ requests = << >>
    /\ csv_seen = NotSeen
    /\ xlsx_seen = NotSeen
    /\ parsed = {}
    /\ csv_result = NoResult
    /\ xlsx_result = NoResult
    /\ result = NoResult

\* _parse_csv_content(content, resource_id, delimiter, partial) is called;
\* arg keeps the delimiter argument of the call
ParseCsvContent ==
    /\ pc = "content"
    /\ \E delimiter \in {None, ";"}, partial \in BOOLEAN :
          /\ csv_result' = _parse_csv_content(content, RESOURCE_ID, delimiter, partial, FALSE)
          /\ arg' = <<delimiter>>
    /\ pc' = "parsed"
    /\ UNCHANGED <<file, requests, csv_seen, xlsx_seen, parsed, content,
                   xlsx_result, result>>

NextCsv == ParseCsvContent

SpecCsv == InitCsv /\ [][NextCsv]_vars

----------------------------------------------------------------------------
(* _detect_delimiter on its own: every first line of up to MaxLine characters *)

MaxLine == 4

LineAlphabet == {",", "\t", ";", "|", "a"}

RECURSIVE Lines(_)
Lines(n) ==
    IF n = 0 THEN {<< >>}
    ELSE LET shorter == Lines(n - 1)
         IN  shorter \cup {Append(t, c) : t \in {u \in shorter : Len(u) = n - 1},
                                          c \in LineAlphabet}

\* content is the first line here
InitDelimiter ==
    /\ content \in Lines(MaxLine)
    /\ pc = "line"
    /\ file = Plain(<< >>)
    /\ arg = NoneText
    /\ requests = << >>
    /\ csv_seen = NotSeen
    /\ xlsx_seen = NotSeen
    /\ parsed = {}
    /\ csv_result = NoResult
    /\ xlsx_result = NoResult
    /\ result = NoResult

\* "if delimiter is None: delimiter = self._detect_delimiter(first_line)"
DetectDelimiter ==
    /\ pc = "line"
    /\ csv_result' = [delimiter |-> _detect_delimiter(content)]
    /\ pc' = "detected"
    /\ UNCHANGED <<file, arg, requests, csv_seen, xlsx_seen, parsed, content,
                   xlsx_result, result>>

NextDelimiter == DetectDelimiter

SpecDelimiter == InitDelimiter /\ [][NextDelimiter]_vars

----------------------------------------------------------------------------
(* _infer_type on its own: every list of up to MaxValues of the values below *)

MaxValues == 2

\* cells as _detect_column_types passes them on: not blank, not stripped
ValueTexts ==
    { <<"1">>,
      <<"-", "2">>,
      <<"0">>,
      <<"1", ".", "5">>,
      <<"1", "e", "3">>,
      <<"1", "E", "3">>,
      <<"1", "e", "-", "3">>,
      <<"1", ",", "0", "0", "0">>,
      <<"1", ",", "0", "0", "0", ".", "5">>,
      <<" ", "7", " ">>,
      <<"i", "n", "f">>,
      <<"1", "_", "0">>,
      <<"a", "b", "c">>,
      <<"1", ".", "2", ".", "3">>,
      <<"e">>,
      <<"2", "0", "2", "3", "-", "0", "1", "-", "0", "5">>,
      <<"0", "1", "/", "0", "2", "/", "2", "0", "2", "3">>,
      <<"2", "0", "2", "3", "-", "0", "1", "-", "0", "5", " ", "1", "0", ":", "0", "0">>,
      <<"1", "0", ":", "0", "0">>,
      <<"a", "-", "b">>,
      <<"y", "e", "s">>,
      <<"N", "o">>,
      <<"N", "O">>,
      <<"Y", "e", "s">>,
      <<" ", "T", "R", "U", "E", " ">>,
      <<"t">> }

RECURSIVE ValueLists(_)
ValueLists(n) ==
    IF n = 0 THEN {<< >>}
    ELSE LET shorter == ValueLists(n - 1)
         IN  shorter \cup {Append(t, v) : t \in {u \in shorter : Len(u) = n - 1},
                                          v \in ValueTexts}

\* the sample set that the documentation gives as its example of a boolean
YES_NO_SAMPLE == <<<<"Y", "e", "s">>, <<"N", "o">>, <<"y", "e", "s">>, <<"N", "O">>>>

\* content is the list of values here
InitInfer ==
    /\ content \in ValueLists(MaxValues) \cup {YES_NO_SAMPLE}
    /\ pc = "values"
    /\ file = Plain(<< >>)
    /\ arg = NoneText
    /\ requests = << >>
    /\ csv_seen = NotSeen
    /\ xlsx_seen = NotSeen
    /\ parsed = {}
    /\ csv_result = NoResult
    /\ xlsx_result = NoResult
    /\ result = NoResult

\* "col_type = self._infer_type(values)"
InferType ==
    /\ pc = "values"
    /\ csv_result' = _infer_type(content)
    /\ pc' = "inferred"
    /\ UNCHANGED <<file, arg, requests, csv_seen, xlsx_seen, parsed, content,
                   xlsx_result, result>>

NextInfer == InferType

SpecInfer == InitInfer /\ [][NextInfer]_vars

----------------------------------------------------------------------------
(* The CSV path under two budgets: a body that starts with a header line and *)
(* a sample line and goes on with any text of up to MaxTail characters, read *)
(* up to b1 and up to b2 characters (the server honours Range: status 206)   *)

MaxTail == 3

HEADER_AND_SAMPLE == <<"a", ",", "b", "\n", "1", ",", "2", "\n">>

RECURSIVE Tails(_)
Tails(n) ==
    IF n = 0 THEN {<< >>}
    ELSE LET shorter == Tails(n - 1)
         IN  shorter \cup {Append(t, c) : t \in {u \in shorter : Len(u) = n - 1},
                                          c \in CsvAlphabet}

\* content is the whole body here
InitTruncation ==
    /\ content \in {HEADER_AND_SAMPLE \o t : t \in Tails(MaxTail)}
    /\ pc = "body"
    /\ file = Plain(<< >>)
    /\ arg = NoneText
    /\ requests = << >>
    /\ csv_seen = NotSeen
    /\ xlsx_seen = NotSeen
    /\ parsed = {}
    /\ csv_result = NoResult
    /\ xlsx_result = NoResult
    /\ result = NoResult

\* detect_csv_headers with csv_fetch_bytes = budget on a 206 response
DetectWithBudget(body, budget) ==
    _parse_csv_content(Slice(body, 0, budget), RESOURCE_ID, None, TRUE, FALSE)

\* the body is detected twice, with the budgets b1 < b2
DetectTwice ==
    /\ pc = "body"
    /\ \E b1, b2 \in 1..Len(content) :
          /\ b1 < b2
          /\ requests' = <<Request(RESOURCE_ID, b1), Request(RESOURCE_ID, b2)>>
          /\ csv_result' = [small |-> DetectWithBudget(content, b1),
                            large |-> DetectWithBudget(content, b2)]
    /\ pc' = "detected_twice"
    /\ UNCHANGED <<file, arg, csv_seen, xlsx_seen, parsed, content, xlsx_result, result>>

NextTruncation == DetectTwice

SpecTruncation == InitTruncation /\ [][NextTruncation]_vars

----------------------------------------------------------------------------
(* Bulk detection: detect_all_csv_headers (asyncio.gather over one shared    *)
(* detector) and the loop of detect_dataset_schemas (server_agnostic.py).    *)
(* In this specification file is the list of the resources, csv_seen,        *)
(* xlsx_seen and csv_result are lists with one place per resource, parsed is *)
(* the list of the tasks in the order they completed.                        *)

MaxResources == 2

ResourceIds == <<"r1", "r2", "r3", "r4">>
ResourceNames == <<"n1", "n2", "n3", "n4">>

\* a workbook small enough to be served whole on either path
SMALL_WORKBOOK == [head |-> <<"P", "K", "<03>", "<04>">>, pad |-> 0, tail |-> << >>, wb |-> Book2]

\* Resource.format and the file behind the resource
ResourceKinds ==
    { [format |-> <<"c", "s", "v">>, data |-> Plain(TABLE)],
      [format |-> XLSX, data |-> SMALL_WORKBOOK],
      [format |-> <<"T", "S", "V">>, data |-> Plain(TABLE)],
      [format |-> <<"P", "D", "F">>, data |-> Plain(TABLE)],
      [format |-> NoneText, data |-> Plain(TABLE)] }

RECURSIVE KindLists(_)
KindLists(n) ==
    IF n = 0 THEN {<< >>}
    ELSE LET shorter == KindLists(n - 1)
         IN  shorter \cup {Append(t, k) : t \in {u \in shorter : Len(u) = n - 1},
                                          k \in ResourceKinds}

\* the resources of a dataset, with their ids and names
Resources(kinds) ==
    [i \in 1..Len(kinds) |->
        [id |-> ResourceIds[i], name |-> ResourceNames[i],
         format |-> kinds[i].format, data |-> kinds[i].data]] \o << >>

InitBulk ==
    /\ file \in {Resources(kinds) : kinds \in KindLists(MaxResources)}
    /\ pc = "idle"
    /\ arg = NoneText
    /\ requests = << >>
    /\ csv_seen = << >>
    /\ xlsx_seen = << >>
    /\ parsed = << >>
    /\ content = << >>
    /\ csv_result = << >>
    /\ xlsx_result = NoResult
    /\ result = NoResult

\* the outcome of a fetch, from what the call observed of it
OutcomeOf(seen, served, request) ==
    IF seen = NotSeen THEN seen
    ELSE CHOOSE o \in Outcomes(served, request) : Observed(o) = seen

\* detect_all_csv_headers is called: one task per resource id, each run up to
\* its "await client.get(...)"
StartGather ==
    /\ pc = "idle"
    /\ pc' = "gathering"
    /\ requests' = [i \in 1..Len(file) |-> Request(file[i].id, csv_fetch_bytes)] \o << >>
    /\ csv_seen' = [i \in 1..Len(file) |-> NotSeen] \o << >>
    /\ csv_result' = [i \in 1..Len(file) |-> NoResult] \o << >>
    /\ UNCHANGED <<file, arg, xlsx_seen, parsed, content, xlsx_result, result>>

\* the fetch of task i completes: the rest of its detect_csv_headers
TaskFetched(i) ==
    /\ pc = "gathering"
    /\ csv_seen[i] = NotSeen
    /\ \E outcome \in Outcomes(file[i].data, requests[i]) :
          /\ csv_seen' = [csv_seen EXCEPT ![i] = Observed(outcome)]
          /\ csv_result' = [csv_result EXCEPT
                               ![i] = detect_csv_headers(file[i].id, None, outcome, FALSE)]
    /\ parsed' = Append(parsed, i)
    /\ UNCHANGED <<file, pc, arg, requests, xlsx_seen, content, xlsx_result, result>>

\* variant: the results come in the order the tasks completed
gather_AsCompleted(results, completed) ==
    [k \in 1..Len(completed) |-> results[completed[k]]] \o << >>

\* asyncio.gather(*tasks): the results in the order of the tasks
gather(results, completed) == results

\* every task is done: "return await asyncio.gather(*tasks)"
Gathered ==
    /\ pc = "gathering"
    /\ \A i \in 1..Len(file) : csv_seen[i] # NotSeen
    /\ result' = gather(csv_result, parsed)
    /\ pc' = "gathered"
    /\ UNCHANGED <<file, arg, requests, csv_seen, xlsx_seen, parsed, content,
                   csv_result, xlsx_result>>

\* variant: only CSV and the Excel formats are selected
tabular_formats_WithoutTsv == {CSV, XLSX, XLS}

\* detect_dataset_schemas (server_agnostic.py): tabular_formats
tabular_formats == {CSV, XLSX, XLS, <<"T", "S", "V">>}

\* "r.format and r.format.upper() in tabular_formats"
IsTabular(r) ==
    r.format # NoneText /\ r.format # << >> /\ upper(r.format) \in tabular_formats

\* tabular_resources
tabular_resources == SelectSeq(file, IsTabular)

\* the fetches detect_headers can await for a resource with an explicit format
PathOutcomes(r) ==
    LET fmt == NormalFormat(r.format)
    IN  IF TakesCsvPath(fmt)
        THEN {[path |-> "csv", request |-> Request(r.id, csv_fetch_bytes), outcome |-> o] :
                 o \in Outcomes(r.data, Request(r.id, csv_fetch_bytes))}
        ELSE IF TakesXlsxPath(fmt)
        THEN {[path |-> "xlsx", request |-> Request(r.id, xlsx_fetch_bytes), outcome |-> o] :
                 o \in Outcomes(r.data, Request(r.id, xlsx_fetch_bytes))}
        ELSE {[path |-> "none"]}

\* one entry of schemas: the result with resource_name and download_url
SchemaEntry(r, detected) ==
    [resource_name |-> r.name,
     download_url |-> <<"https://edx.netl.doe.gov/resource/", r.id, "/download">>] @@ detected

\* detect_dataset_schemas after "sub = await edx.get_submission(dataset_id)":
\* no tabular resource, or the loop is entered
StartLoop ==
    /\ pc = "idle"
    /\ IF Len(tabular_resources) = 0
       THEN /\ pc' = "no_tabular"
            /\ result' = [dataset_id |-> "d1", title |-> "t1",
                           message |-> "No tabular files (CSV/Excel) found in this dataset",
                           resource_formats |-> [i \in 1..Len(file) |-> file[i].format]]
       ELSE /\ pc' = "looping"
            /\ result' = result
    /\ UNCHANGED <<file, arg, requests, csv_seen, xlsx_seen, parsed, content,
                   csv_result, xlsx_result>>

\* one iteration of "for r in tabular_resources": detect_headers(r.id,
\* r.format) with its fetch, the two keys added, the entry appended; after the
\* last iteration the tool returns
LoopIteration ==
    /\ pc = "looping"
    /\ LET i == Len(csv_result) + 1
           r == tabular_resources[i]
       IN  \E p \in PathOutcomes(r) :
             LET o == IF p.path = "none" THEN NotSeen ELSE p.outcome
                 entry == SchemaEntry(r, detect_headers(r.id, r.format, o, o, r.data))
                 schemas == Append(csv_result, entry)
             IN  /\ requests' = IF p.path = "none" THEN requests ELSE Append(requests, p.request)
                 /\ csv_seen' = Append(csv_seen, IF p.path = "csv" THEN Observed(o) ELSE NotSeen)
                 /\ xlsx_seen' = Append(xlsx_seen, IF p.path = "xlsx" THEN Observed(o) ELSE NotSeen)
                 /\ parsed' = Append(parsed, i)
                 /\ csv_result' = schemas
                 /\ IF i = Len(tabular_resources)
                    THEN /\ pc' = "looped"
                         /\ result' = [dataset_id |-> "d1", title |-> "t1",
                                        tabular_files |-> Len(schemas), schemas |-> schemas]
                    ELSE /\ pc' = pc
                         /\ result' = result
    /\ UNCHANGED <<file, arg, content, xlsx_result>>

\* the caller takes the result; nothing of the call is kept
BulkReturned ==
    /\ pc \in {"gathered", "looped", "no_tabular"}
    /\ pc' = "idle"
    /\ requests' = << >>
    /\ csv_seen' = << >>
    /\ xlsx_seen' = << >>
    /\ parsed' = << >>
    /\ csv_result' = << >>
    /\ result' = NoResult
    /\ UNCHANGED <<file, arg, content, xlsx_result>>

NextBulk ==
    \/ StartGather
    \/ \E i \in 1..Len(file) : TaskFetched(i)
    \/ Gathered
    \/ StartLoop
    \/ LoopIteration
    \/ BulkReturned

SpecBulk == InitBulk /\ [][NextBulk]_vars

----------------------------------------------------------------------------
(* The detect_file_schema tools: server.py (format lookup through the EDX    *)
(* API when the format is omitted, then detect_headers, then a text) and     *)
(* server_agnostic.py (detect_headers, then the result itself).  In this     *)
(* specification arg is the local variable format, requests holds the lookup *)
(* request, csv_result is what detect_headers returned and result is what    *)
(* the tool returned or the exception that left it.                          *)

\* the exceptions of the lookup, with the classes they are instances of
ConnectError == [cls |-> "httpx.ConnectError", bases |-> {"httpx.HTTPError", "Exception"}]
HTTPStatusError == [cls |-> "httpx.HTTPStatusError", bases |-> {"httpx.HTTPError", "Exception"}]
JSONDecodeError == [cls |-> "json.JSONDecodeError", bases |-> {"ValueError", "Exception"}]
ValidationError == [cls |-> "pydantic.ValidationError", bases |-> {"ValueError", "Exception"}]
EdxApiError == [cls |-> "Exception", bases |-> { }]

isinstance(e, classes) == e.cls \in classes \/ e.bases \cap classes # { }

\* what the EDX API can answer to resource_show: no answer, an error status,
\* a body that is not JSON, {"success": false}, or a result object
LookupAnswers ==
    { [kind |-> "exception"],
      [kind |-> "response", status_code |-> 404],
      [kind |-> "response", status_code |-> 200, json |-> "invalid"],
      [kind |-> "response", status_code |-> 200, json |-> "object", success |-> FALSE] }
    \cup { [kind |-> "response", status_code |-> 200, json |-> "object", success |-> TRUE,
             id |-> i, format |-> f] :
               i \in {<<"r", "1">>, NoneText}, f \in {NoneText, CSV, XLSX, <<"P", "D", "F">>} }

\* EDXClient._request: the result object, or the exception raised
_request(answer) ==
    IF answer.kind = "exception" THEN [raised |-> ConnectError]
    ELSE IF answer.status_code >= 400 THEN [raised |-> HTTPStatusError]
    ELSE IF answer.json = "invalid" THEN [raised |-> JSONDecodeError]
    ELSE IF ~answer.success THEN [raised |-> EdxApiError]
    ELSE [id |-> answer.id, format |-> answer.format]

\* EDXClient.get_resource: Resource(id=..., format=...) validates id: str
get_resource(answer) ==
    LET res == _request(answer)
    IN  IF "raised" \in DOMAIN res THEN res
        ELSE IF res.id = NoneText THEN [raised |-> ValidationError]
        ELSE res

\* "except (httpx.HTTPError, OSError, KeyError)"
LookupHandled == {"httpx.HTTPError", "OSError", "KeyError"}

\* "if not format"
FormatOmitted(format_arg) == format_arg = NoneText \/ format_arg = << >>

\* result.get(key, default)
Get(r, key, default) == IF key \in DOMAIN r THEN r[key] ELSE default

\* one row of the column table: name[:30], type, nullable, two samples [:15]
ColumnRow(i, col) ==
    [n |-> i,
     name |-> Slice(col.name, 0, 30),
     type |-> col.type,
     nullable |-> IF Get(col, "nullable", FALSE) THEN "Yes" ELSE "No",
     samples |-> LET two == Slice(Get(col, "sample_values", << >>), 0, 2)
                 IN  [k \in 1..Len(two) |-> Slice(two[k], 0, 15)]]

\* the lines of one sheet: its column count and its first ten headers, the
\* empty ones left out
SheetLines(name, sheet) ==
    [sheet |-> name,
     columns |-> sheet.column_count,
     headers |-> SelectSeq(Slice(sheet.headers, 0, 10), LAMBDA h : Len(h) > 0)]

\* server.py detect_file_schema from "result = await detector.detect_headers"
\* on: the text, as the values its lines are formatted from
SchemaText(detected, format_arg, resource_id) ==
    IF ~detected.success
    THEN [text |-> <<"**Error detecting schema:** ", detected.error,
                     "Resource ID: ", resource_id>>]
    ELSE LET top == [title |-> "**File Schema Detection**",
                     resource_id |-> resource_id,
                     format |-> Get(detected, "format", format_arg),
                     bytes_fetched |-> detected.bytes_fetched,
                     download |-> <<"https://edx.netl.doe.gov/resource/", resource_id,
                                    "/download">>]
         IN  IF "column_count" \in DOMAIN detected
             THEN top @@ [columns |-> detected.column_count,
                          delimiter |-> detected.delimiter,
                          table |-> [i \in 1..Min({50, Len(detected.column_types)}) |->
                                        ColumnRow(i, detected.column_types[i])]]
             ELSE IF DOMAIN detected.sheets # { }
             THEN top @@ [sheets |-> Len(detected.sheet_names),
                          per_sheet |-> [k \in 1..Len(detected.sheet_names) |->
                              SheetLines(detected.sheet_names[k],
                                         detected.sheets[detected.sheet_names[k]])]]
             ELSE top

ToolFiles == {Plain(TABLE), Plain(<< >>), SMALL_WORKBOOK}
ToolFormatArgs == {NoneText, << >>, <<"c", "s", "v">>, XLSX, <<"p", "d", "f">>}

InitTool ==
    /\ file \in ToolFiles
    /\ arg \in ToolFormatArgs
    /\ pc = "called"
    /\ requests = << >>
    /\ csv_seen = NotSeen
    /\ xlsx_seen = NotSeen
    /\ parsed = << >>
    /\ content = << >>
    /\ csv_result = NoResult
    /\ xlsx_result = NoResult
    /\ result = NoResult

\* server.py: the format is omitted, "await edx.get_resource(resource_id)"
LookupSent ==
    /\ pc = "called"
    /\ FormatOmitted(arg)
    /\ pc' = "lookup"
    /\ requests' = <<[endpoint |-> "resource_show", params |-> [id |-> RESOURCE_ID]]>>
    /\ UNCHANGED <<file, arg, csv_seen, xlsx_seen, parsed, content, csv_result,
                   xlsx_result, result>>

\* the lookup ends: format = resource.format, or format = "CSV" in the
\* handler, or the exception leaves the tool
LookupAnswered ==
    /\ pc = "lookup"
    /\ \E answer \in LookupAnswers :
          LET resource == get_resource(answer)
          IN  /\ xlsx_seen' = answer
              /\ IF "raised" \notin DOMAIN resource
                 THEN pc' = "detecting" /\ arg' = resource.format /\ result' = result
                 ELSE IF isinstance(resource.raised, LookupHandled)
                 THEN pc' = "detecting" /\ arg' = CSV /\ result' = result
                 ELSE pc' = "raised" /\ arg' = arg /\ result' = resource
    /\ UNCHANGED <<file, requests, csv_seen, parsed, content, csv_result, xlsx_result>>

\* server.py: detect_headers with its fetches, then the text
Detected ==
    /\ \/ pc = "called" /\ ~FormatOmitted(arg)
       \/ pc = "detecting"
    /\ \E co \in Outcomes(file, Request(RESOURCE_ID, csv_fetch_bytes)),
          xo \in Outcomes(file, Request(RESOURCE_ID, xlsx_fetch_bytes)) :
          LET detected == detect_headers(RESOURCE_ID, arg, co, xo, file)
          IN  /\ csv_result' = detected
              /\ result' = SchemaText(detected, arg, RESOURCE_ID)
    /\ pc' = "returned"
    /\ UNCHANGED <<file, arg, requests, csv_seen, xlsx_seen, parsed, content, xlsx_result>>

\* server_agnostic.py detect_file_schema: detect_headers, download_url added
\* to a successful result
AgnosticDetected ==
    /\ pc = "called"
    /\ \E co \in Outcomes(file, Request(RESOURCE_ID, csv_fetch_bytes)),
          xo \in Outcomes(file, Request(RESOURCE_ID, xlsx_fetch_bytes)) :
          LET detected == detect_headers(RESOURCE_ID, arg, co, xo, file)
          IN  /\ csv_result' = detected
              /\ result' = IF detected.success
                            THEN [download_url |-> <<"https://edx.netl.doe.gov/resource/",
                                                     RESOURCE_ID, "/download">>] @@ detected
                            ELSE detected
    /\ pc' = "returned_agnostic"
    /\ UNCHANGED <<file, arg, requests, csv_seen, xlsx_seen, parsed, content, xlsx_result>>

\* the call is over; the next call comes with its own format argument
ToolDone ==
    /\ pc \in {"returned", "returned_agnostic", "raised"}
    /\ pc' = "called"
    /\ arg' \in ToolFormatArgs
    /\ requests' = << >>
    /\ xlsx_seen' = NotSeen
    /\ csv_result' = NoResult
    /\ result' = NoResult
    /\ UNCHANGED <<file, csv_seen, parsed, content, xlsx_result>>

NextTool ==
    \/ LookupSent
    \/ LookupAnswered
    \/ Detected
    \/ AgnosticDetected
    \/ ToolDone

SpecTool == InitTool /\ [][NextTool]_vars

----------------------------------------------------------------------------
(* ComtradeClient (UNComtrade_MCP): the API key of a client.  In this        *)
(* specification content is os.environ's UNCOMTRADE_API_KEY (None when it is *)
(* not set), file is the list of the clients built so far, csv_seen keeps,   *)
(* per client, the argument and the environment of its construction, and     *)
(* result is the last answer of is_available.                                *)

MaxClients == 2

\* the keys of the model; "" is the empty string
ApiKeys == {"", "key-a", "key-b"}

\* api_key: Optional[str], and what os.getenv returns
OptionalKeys == ApiKeys \cup {None}

\* bool(x) of an optional string
NonEmpty(x) == x # None /\ x # ""

\* variant: the environment is taken before the argument
api_key_or_getenv_EnvFirst(api_key, environ) ==
    IF NonEmpty(environ) THEN environ ELSE api_key

\* "api_key or os.getenv("UNCOMTRADE_API_KEY")"
api_key_or_getenv(api_key, environ) ==
    IF NonEmpty(api_key) THEN api_key ELSE environ

InitComtrade ==
    /\ content \in OptionalKeys
    /\ file = << >>
    /\ csv_seen = << >>
    /\ pc = "idle"
    /\ arg = None
    /\ requests = << >>
    /\ xlsx_seen = NotSeen
    /\ parsed = << >>
    /\ csv_result = NoResult
    /\ xlsx_result = NoResult
    /\ result = NoResult

\* os.environ["UNCOMTRADE_API_KEY"] = value, or del os.environ[...]
SetEnviron(value) ==
    /\ content' = value
    /\ content' # content
    /\ UNCHANGED <<file, pc, arg, requests, csv_seen, xlsx_seen, parsed, csv_result,
                   xlsx_result, result>>

\* ComtradeClient(api_key)
Construct(api_key) ==
    /\ Len(file) < MaxClients
    /\ file' = Append(file, [api_key |-> api_key_or_getenv(api_key, content), timeout |-> 60])
    /\ csv_seen' = Append(csv_seen, [api_key |-> api_key, environ |-> content])
    /\ arg' = api_key
    /\ UNCHANGED <<pc, requests, xlsx_seen, parsed, content, csv_result, xlsx_result, result>>

\* client.is_available() of the i-th client
IsAvailable(i) ==
    /\ result' = [client |-> i, available |-> NonEmpty(file[i].api_key)]
    /\ UNCHANGED <<file, pc, arg, requests, csv_seen, xlsx_seen, parsed, content,
                   csv_result, xlsx_result>>

NextComtrade ==
    \/ \E value \in OptionalKeys : SetEnviron(value)
    \/ \E api_key \in OptionalKeys : Construct(api_key)
    \/ \E i \in 1..Len(file) : IsAvailable(i)

SpecComtrade == InitComtrade /\ [][NextComtrade]_vars

----------------------------------------------------------------------------
(* Properties of detect_headers (specification Spec) *)

InCall == pc # "idle"
CsvStarted == \E i \in 1..Len(requests) : requests[i] = CsvRequest
XlsxStarted == \E i \in 1..Len(requests) : requests[i] = XlsxRequest
CsvFailed == csv_result # NoResult /\ ~csv_result.success
CsvSucceeded == csv_result # NoResult /\ csv_result.success

\* C1: with an absent format (None or "") the CSV path runs first; the
\* spreadsheet path is started if and only if the CSV path returned
\* success=false; a successful CSV result is returned unchanged and the
\* spreadsheet path is never started.
C1_AbsentFormatFallsBackOnFailureOnly ==
    (InCall /\ arg \in {NoneText, << >>}) =>
        /\ requests[1] = CsvRequest
        /\ XlsxStarted <=> CsvFailed
        /\ CsvSucceeded =>
              /\ pc = "returned"
              /\ result = csv_result
              /\ requests = <<CsvRequest>>
              /\ xlsx_seen = NotSeen
              /\ xlsx_result = NoResult

\* the CSV path failed on a workbook and the fallback returned its sheets
W_C1_FallbackReturnedSheets ==
    /\ pc = "returned"
    /\ arg \in {NoneText, << >>}
    /\ "csv" \in parsed
    /\ CsvFailed
    /\ requests = <<CsvRequest, XlsxRequest>>
    /\ result = xlsx_result
    /\ result.success

\* C2: with an explicit format exactly one path runs and there is no
\* fallback: for CSV only the CSV path, whose result (a failure too) is the
\* final result; for a spreadsheet format only the spreadsheet path, the CSV
\* path never being started.
C2_ExplicitFormatOnePath ==
    /\ (InCall /\ format = CSV) =>
          /\ requests = <<CsvRequest>>
          /\ xlsx_seen = NotSeen /\ xlsx_result = NoResult /\ "xlsx" \notin parsed
          /\ pc = "returned" => (csv_result # NoResult /\ result = csv_result)
    /\ (InCall /\ format \in {XLSX, XLS, XLSM}) =>
          /\ requests = <<XlsxRequest>>
          /\ csv_seen = NotSeen /\ csv_result = NoResult /\ "csv" \notin parsed
          /\ pc = "returned" => (xlsx_result # NoResult /\ result = xlsx_result)

\* an explicit CSV whose parse failed returned that failure
W_C2_CsvFailureIsFinal ==
    /\ pc = "returned"
    /\ format = CSV
    /\ "csv" \in parsed
    /\ ~result.success

\* C3: an explicit format that is not a recognised one returns success=false
\* with "Unsupported format: <format>" and no HTTP request is issued.
C3_UnsupportedFormatNoFetch ==
    (InCall /\ format \notin {<< >>, CSV, XLSX, XLS, XLSM}) =>
        /\ pc = "returned"
        /\ result = [success |-> FALSE,
                     error |-> <<"Unsupported format: ", format>>,
                     resource_id |-> RESOURCE_ID]
        /\ requests = << >>
        /\ csv_seen = NotSeen /\ xlsx_seen = NotSeen

W_C3_TsvUnsupported ==
    /\ pc = "returned"
    /\ arg = <<"T", "S", "V">>
    /\ ~result.success
    /\ requests = << >>

\* C4 as stated: a call issues at most one HTTP request.
CX_C4_AtMostOneRequest == Len(requests) <= 1

\* C4 amended: a call issues at most one request per path and repeats none:
\* with an explicit format at most one request; with an absent format at
\* most two, the second being the spreadsheet path's request, sent only
\* after the CSV path returned success=false.
C4_OneRequestPerPath ==
    /\ Len(requests) <= 2
    /\ \A i, j \in 1..Len(requests) : requests[i] = requests[j] => i = j
    /\ (InCall /\ arg \notin {NoneText, << >>}) => Len(requests) <= 1
    /\ Len(requests) = 2 => (requests = <<CsvRequest, XlsxRequest>> /\ CsvFailed)
    /\ pc = "returned" =>
          Len(requests) = (IF csv_seen # NotSeen THEN 1 ELSE 0)
                          + (IF xlsx_seen # NotSeen THEN 1 ELSE 0)

\* the CSV path's fetch failed and the spreadsheet path's fetch failed too:
\* two requests, no third
W_C4_TwoRequests ==
    /\ pc = "returned"
    /\ Len(requests) = 2
    /\ csv_seen.kind = "exception"
    /\ xlsx_seen.kind = "exception"

\* C5: on either path an exception of the fetch, or a status other than 200
\* and 206, gives a returned result with success=false whose error is the
\* exception text or "HTTP <status>", without any parsing; detect_headers
\* returns a result in every case.
FetchFailureReported(seen, path_result, path) ==
    /\ seen.kind = "exception" =>
          /\ path_result = [success |-> FALSE, error |-> <<seen.text>>,
                            resource_id |-> RESOURCE_ID]
          /\ path \notin parsed
    /\ (seen.kind = "response" /\ seen.status_code \notin {200, 206}) =>
          /\ path_result = [success |-> FALSE, error |-> <<"HTTP ", seen.status_code>>,
                            resource_id |-> RESOURCE_ID]
          /\ path \notin parsed

C5_FetchFailureIsAResult ==
    /\ FetchFailureReported(csv_seen, csv_result, "csv")
    /\ FetchFailureReported(xlsx_seen, xlsx_result, "xlsx")
    /\ pc = "returned" => (result # NoResult /\ result.success \in BOOLEAN)

\* the CSV path's fetch raised and the spreadsheet path got an error status
W_C5_BothFetchesFailed ==
    /\ pc = "returned"
    /\ csv_seen.kind = "exception"
    /\ xlsx_seen.kind = "response"
    /\ xlsx_seen.status_code = 404
    /\ result.error = <<"HTTP ", 404>>

\* C6: on the CSV path a 206 response sets partial_download=true; a 200
\* response has its body cut to the CSV budget and sets partial_download=true
\* if and only if the body was longer than the budget.
CX_C6_PartialFollowsStatus ==
    CsvSucceeded =>
        /\ csv_seen.status_code = 206 => csv_result.partial_download
        /\ csv_seen.status_code = 200 =>
              /\ csv_result.partial_download <=> csv_seen.nbytes > csv_fetch_bytes
              /\ csv_result.bytes_fetched <= csv_fetch_bytes

\* C7: for a successful CSV detection, a resource no larger than the budget
\* gives partial_download=false, and a larger resource served whole with 200
\* gives partial_download=true.
CX_C7_PartialFollowsSize ==
    CsvSucceeded =>
        /\ FileSize(file) <= csv_fetch_bytes => ~csv_result.partial_download
        /\ (FileSize(file) > csv_fetch_bytes /\ csv_seen.status_code = 200) =>
              csv_result.partial_download

\* C8: every result that reports bytes_fetched reports at most the budget of
\* its path: 8192 on the CSV path, 65536 on the spreadsheet path.
CX_C8_BytesWithinBudget ==
    /\ CsvSucceeded => csv_result.bytes_fetched <= 8192
    /\ (xlsx_result # NoResult /\ "bytes_fetched" \in DOMAIN xlsx_result) =>
          xlsx_result.bytes_fetched <= 65536

\* C20: the three-line body name,year,qty / Lithium,2023,500 /
\* Cobalt,2022,300.5 returned in full with status 200 gives success=true,
\* delimiter ',', headers [name, year, qty], column types [string, integer,
\* float], exactly 2 sample rows and partial_download=false.
C20_ExampleBodyDetected ==
    (file = Plain(EXAMPLE_BODY) /\ csv_seen.kind = "response" /\ csv_seen.status_code = 200) =>
        /\ csv_result.success
        /\ csv_result.delimiter = ","
        /\ csv_result.headers = <<<<"n", "a", "m", "e">>, <<"y", "e", "a", "r">>, <<"q", "t", "y">>>>
        /\ Len(csv_result.column_types) = 3
        /\ csv_result.column_types[1].type = "string"
        /\ csv_result.column_types[2].type = "integer"
        /\ csv_result.column_types[3].type = "float"
        /\ Len(csv_result.sample_rows) = 2
        /\ csv_result.rows_sampled = 2
        /\ ~csv_result.partial_download
        /\ pc = "returned" /\ result = csv_result

\* the example body was fetched whole with status 200 and its result returned
W_C20_ExampleBodyWhole ==
    /\ file = Plain(EXAMPLE_BODY)
    /\ pc = "returned"
    /\ csv_seen.kind = "response"
    /\ csv_seen.status_code = 200
    /\ csv_seen.nbytes = Len(EXAMPLE_BODY)
    /\ result.success
    /\ result.column_count = 3

\* the spreadsheet path received a body (200 or 206)
XlsxBodyReceived == xlsx_seen.kind = "response" /\ xlsx_seen.status_code \in {200, 206}

\* the body received is the whole file of a workbook
WholeWorkbookReceived ==
    XlsxBodyReceived /\ file.wb # NoWorkbook /\ xlsx_seen.nbytes = FileSize(file)

\* C21: when the bytes the spreadsheet path received cannot be opened as a
\* workbook, the result returned is success=false with a non-empty error, a
\* suggestion of a full download and bytes_fetched equal to the number of
\* bytes received.
C21_UnopenableWorkbookIsAResult ==
    (XlsxBodyReceived /\ ~WholeWorkbookReceived) =>
        /\ pc = "returned"
        /\ result = xlsx_result
        /\ ~result.success
        /\ DOMAIN result = {"success", "error", "resource_id", "bytes_fetched", "suggestion"}
        /\ Len(result.error) > 0
        /\ result.error[1] = "Excel parse error (may need full file): "
        /\ result.suggestion = "Excel files often require full download for reliable parsing"
        /\ result.bytes_fetched = xlsx_seen.nbytes

\* a workbook larger than the budget arrived cut at the budget (206)
W_C21_TruncatedWorkbook ==
    /\ pc = "returned"
    /\ file.wb # NoWorkbook
    /\ xlsx_seen.kind = "response"
    /\ xlsx_seen.status_code = 206
    /\ xlsx_seen.nbytes = xlsx_fetch_bytes
    /\ FileSize(file) > xlsx_fetch_bytes
    /\ ~result.success
    /\ result.bytes_fetched = xlsx_fetch_bytes

\* C22: a successful spreadsheet result has an entry for every sheet of the
\* workbook and sheet_names lists every sheet; for each sheet headers is row
\* 1, sample_rows is rows 2 to 6 (at most 5, in order) and column_count is
\* len(headers).
CX_C22_EverySheetReported ==
    (WholeWorkbookReceived /\ xlsx_result.success) =>
        /\ xlsx_result.sheet_names = [k \in 1..Len(file.wb) |-> file.wb[k].name]
        /\ \A k \in 1..Len(file.wb) :
              /\ file.wb[k].name \in DOMAIN xlsx_result.sheets
              /\ LET entry == xlsx_result.sheets[file.wb[k].name]
                      rows == file.wb[k].rows
                      n == Len(rows)
                  IN  /\ n >= 1 => Len(entry.headers) = Len(rows[1])
                      /\ entry.column_count = Len(entry.headers)
                      /\ Len(entry.sample_rows) = (IF n - 1 < 5 THEN n - 1 ELSE 5)
                      /\ \A j \in 1..Len(entry.sample_rows) :
                            Len(entry.sample_rows[j]) = Len(rows[j + 1])

----------------------------------------------------------------------------
(* Properties of _parse_csv_content (specification SpecCsv) *)

Blank(text) == \A i \in 1..Len(text) : IsSpace(text[i])

\* C9: every CSV result with success=true has at least one header; content
\* whose first parsed row has no field is a failure.
CX_C9_SuccessHasHeader ==
    (pc = "parsed" /\ csv_result.success) =>
        (csv_result.column_count >= 1 /\ Len(csv_result.headers) >= 1)

\* C10: content that is empty or holds only newlines and whitespace is
\* rejected: _parse_csv_content returns success=false.
CX_C10_BlankContentRejected ==
    (pc = "parsed" /\ Blank(content)) => ~csv_result.success

\* C11: a successful CSV result has one column_types entry per header, in
\* the order of the headers and named after them, and column_count is that
\* number, whatever the number and the lengths of the sample rows.
C11_OneColumnTypePerHeader ==
    (pc = "parsed" /\ csv_result.success) =>
        /\ Len(csv_result.column_types) = Len(csv_result.headers)
        /\ Len(csv_result.headers) = csv_result.column_count
        /\ \A i \in 1..Len(csv_result.headers) :
              /\ i \in DOMAIN csv_result.column_types
              /\ csv_result.column_types[i].name = csv_result.headers[i]

\* sample rows shorter and longer than the header row were typed
W_C11_RaggedSampleRows ==
    /\ pc = "parsed"
    /\ csv_result.success
    /\ csv_result.column_count >= 2
    /\ \E k \in 1..Len(csv_result.sample_rows) :
          Len(csv_result.sample_rows[k]) < csv_result.column_count
    /\ \E k \in 1..Len(csv_result.sample_rows) :
          Len(csv_result.sample_rows[k]) > csv_result.column_count

\* the rows csv.reader yields for the content with the result's delimiter
ParsedRows == csv_reader(content, csv_result.delimiter, FALSE).rows

\* C13: of n >= 1 parsed rows the first is headers, the next min(5, n-1), in
\* their order, are sample_rows, and rows_sampled = len(sample_rows) <= 5.
C13_HeaderThenUpToFiveSamples ==
    (pc = "parsed" /\ csv_result.success) =>
        LET n == Len(ParsedRows)
        IN  /\ n >= 1
            /\ csv_result.headers = ParsedRows[1]
            /\ Len(csv_result.sample_rows) = (IF n - 1 < 5 THEN n - 1 ELSE 5)
            /\ \A k \in 1..Len(csv_result.sample_rows) :
                  csv_result.sample_rows[k] = ParsedRows[k + 1]
            /\ csv_result.rows_sampled = Len(csv_result.sample_rows)
            /\ csv_result.rows_sampled <= 5

\* eight rows were parsed and five of them sampled
W_C13_FiveOfSevenSampled ==
    /\ pc = "parsed"
    /\ csv_result.success
    /\ Len(ParsedRows) = 8
    /\ csv_result.rows_sampled = 5

\* the delimiter in effect: the one supplied, or else the one detected
DelimiterInEffect ==
    IF arg = <<None>> THEN _detect_delimiter(FirstLine(strip(content))) ELSE arg[1]

\* csv.reader yields exactly one row for the content
OneRowParsed ==
    LET r == csv_reader(content, DelimiterInEffect, FALSE) IN r.ok /\ Len(r.rows) = 1

\* C14: when exactly one row is parsed the result is a success without sample
\* rows, and every column has type unknown and no sample values.
C14_HeaderOnlyIsSuccessUnknown ==
    (pc = "parsed" /\ OneRowParsed) =>
        /\ csv_result.success
        /\ csv_result.sample_rows = << >>
        /\ csv_result.rows_sampled = 0
        /\ Len(csv_result.column_types) = Len(csv_result.headers)
        /\ \A i \in 1..Len(csv_result.column_types) :
              /\ csv_result.column_types[i].type = "unknown"
              /\ "sample_values" \in DOMAIN csv_result.column_types[i]
                    => csv_result.column_types[i].sample_values = << >>

\* a header row of two columns and nothing after it
W_C14_TwoHeadersNoSample ==
    /\ pc = "parsed"
    /\ OneRowParsed
    /\ csv_result.success
    /\ csv_result.column_count = 2
    /\ csv_result.column_types[2].type = "unknown"

\* the cell of sample row k in column i, empty when the row is too short
SampleCell(k, i) ==
    IF i <= Len(csv_result.sample_rows[k]) THEN csv_result.sample_rows[k][i] ELSE << >>

\* the cells of column i that are not blank, in row order
FilledCells(i) ==
    LET cells == [k \in 1..Len(csv_result.sample_rows) |-> SampleCell(k, i)]
        Filled(v) == ~Blank(v)
    IN  SelectSeq(cells, Filled)

\* C18: with at least one sample row, for every column i: a row too short
\* for i counts as an empty cell; nullable holds if and only if some sample
\* row has a blank or missing cell at i; sample_values is the first up to 3
\* non-blank cells of the column in row order; the type is inferred from the
\* non-blank cells alone.
C18_ColumnFromItsNonBlankCells ==
    (pc = "parsed" /\ csv_result.success /\ Len(csv_result.sample_rows) >= 1) =>
        \A i \in 1..Len(csv_result.headers) :
            LET column == csv_result.column_types[i]
                filled == FilledCells(i)
            IN  /\ column.nullable <=>
                      \E k \in 1..Len(csv_result.sample_rows) : Blank(SampleCell(k, i))
                /\ column.sample_values =
                      SubSeq(filled, 1, IF Len(filled) < 3 THEN Len(filled) ELSE 3)
                /\ column.type = _infer_type(filled).type

\* a column with a cell of spaces and four values, and a column that most
\* sample rows are too short for
W_C18_BlankAndMissingCells ==
    /\ pc = "parsed"
    /\ csv_result.success
    /\ csv_result.column_count = 3
    /\ \E k \in 1..Len(csv_result.sample_rows) : csv_result.sample_rows[k] = <<<<" ">>>>
    /\ Len(FilledCells(1)) = 4
    /\ Len(csv_result.column_types[1].sample_values) = 3
    /\ csv_result.column_types[1].nullable
    /\ \E k \in 1..Len(csv_result.sample_rows) : Len(csv_result.sample_rows[k]) < 3
    /\ csv_result.column_types[3].nullable

----------------------------------------------------------------------------
(* Properties of _detect_delimiter (specification SpecDelimiter) *)

CandidateOrder == <<",", "\t", ";", "|">>

Occurrences(line, c) == LET Is(x) == x = c IN Len(SelectSeq(line, Is))

\* C12: the detected delimiter is a candidate (comma, tab, semicolon, pipe)
\* that no candidate outnumbers in the first line and that every earlier
\* candidate falls short of; it is the comma when no candidate occurs, and
\* when the comma is the only candidate that occurs.
C12_DelimiterIsFirstMostFrequent ==
    pc = "detected" =>
        \E k \in 1..Len(CandidateOrder) :
            /\ csv_result.delimiter = CandidateOrder[k]
            /\ \A j \in 1..Len(CandidateOrder) :
                  Occurrences(content, CandidateOrder[j]) <= Occurrences(content, CandidateOrder[k])
            /\ \A j \in 1..(k - 1) :
                  Occurrences(content, CandidateOrder[j]) < Occurrences(content, CandidateOrder[k])
            /\ (\A j \in 1..Len(CandidateOrder) : Occurrences(content, CandidateOrder[j]) = 0)
                  => k = 1
            /\ (\A j \in 2..Len(CandidateOrder) : Occurrences(content, CandidateOrder[j]) = 0)
                  => k = 1

\* tab and pipe tie above the comma: the tab, the earlier of the two, is taken
W_C12_TieGoesToEarlier ==
    /\ pc = "detected"
    /\ Occurrences(content, "\t") = 2
    /\ Occurrences(content, "|") = 2
    /\ csv_result.delimiter = "\t"

----------------------------------------------------------------------------
(* Properties of _infer_type (specification SpecInfer) *)

Inferred == pc = "inferred" /\ Len(content) > 0

\* every value parses as a number once its commas are removed
AllNumeric == \A i \in 1..Len(content) : IsFloat(RemoveCommas(content[i]))

\* the value holds a decimal point or an exponent marker
HasMarker(v) == \E i \in 1..Len(v) : v[i] \in {".", "e", "E"}

\* C15: a non-empty sample set whose values all parse as numbers is float
\* when a value holds a decimal point or an exponent marker and integer
\* otherwise; a set with a value that does not parse is neither.
C15_NumericIsFloatOrInteger ==
    Inferred =>
        /\ AllNumeric =>
              csv_result.type = (IF \E i \in 1..Len(content) : HasMarker(content[i])
                                 THEN "float" ELSE "integer")
        /\ ~AllNumeric => csv_result.type \notin {"float", "integer"}

\* an exponent without a decimal point, beside a plain integer, made a float
W_C15_ExponentMakesFloat ==
    /\ Inferred
    /\ content = <<<<"1">>, <<"1", "E", "3">>>>
    /\ csv_result.type = "float"

\* every value holds a '-' or a '/'
AllDateLike ==
    \A i \in 1..Len(content) : \E j \in 1..Len(content[i]) : content[i][j] \in {"-", "/"}

HasColon(v) == \E j \in 1..Len(v) : v[j] = ":"

\* C16: a non-empty sample set that is not all numeric and whose values all
\* hold '-' or '/' is datetime when every value holds a ':' and date
\* otherwise (also when only some values hold a ':').
CX_C16_DatetimeNeedsEveryColon ==
    (Inferred /\ ~AllNumeric /\ AllDateLike) =>
        csv_result.type = (IF \A i \in 1..Len(content) : HasColon(content[i])
                           THEN "datetime" ELSE "date")

BooleanWords ==
    { <<"t", "r", "u", "e">>, <<"f", "a", "l", "s", "e">>, <<"y", "e", "s">>, <<"n", "o">>, <<"1">>, <<"0">>, <<"t">>, <<"f">>, <<"y">>, <<"n">> }

\* str.lower() of the letters that spell the boolean words
FoldCase(v) ==
    [i \in 1..Len(v) |->
        CASE v[i] = "T" -> "t" [] v[i] = "R" -> "r" [] v[i] = "U" -> "u"
          [] v[i] = "E" -> "e" [] v[i] = "F" -> "f" [] v[i] = "A" -> "a"
          [] v[i] = "L" -> "l" [] v[i] = "S" -> "s" [] v[i] = "Y" -> "y"
          [] v[i] = "N" -> "n" [] v[i] = "O" -> "o" [] OTHER -> v[i]] \o << >>

\* C17: a non-empty sample set that fails the numeric and the date tests is
\* boolean if and only if every value, trimmed and lower-cased, is one of
\* true, false, yes, no, 1, 0, t, f, y, n; ["Yes","No","yes","NO"] is boolean.
C17_BooleanIffEveryValueIsAWord ==
    /\ (Inferred /\ ~AllNumeric /\ ~AllDateLike) =>
          (csv_result.type = "boolean"
              <=> \A i \in 1..Len(content) : FoldCase(strip(content[i])) \in BooleanWords)
    /\ (pc = "inferred" /\ content = YES_NO_SAMPLE) => csv_result.type = "boolean"

\* a padded upper-case word beside a one-letter spelling is boolean
W_C17_PaddedWordAndLetter ==
    /\ Inferred
    /\ content = <<<<" ", "T", "R", "U", "E", " ">>, <<"t">>>>
    /\ csv_result.type = "boolean"

AllBooleanWords ==
    \A i \in 1..Len(content) : FoldCase(strip(content[i])) \in BooleanWords

\* C26: _infer_type always returns one of the seven types; unknown exactly
\* for the empty sample set; otherwise the first test that the set passes, in
\* the order numeric, date, boolean, decides, so values from {"1","0"} are
\* integer; string, with max_length the longest value's length, exactly when
\* the set is non-empty and fails all three tests.
C26_FirstPassingTestDecides ==
    pc = "inferred" =>
        /\ csv_result.type \in {"integer", "float", "date", "datetime", "boolean",
                                 "string", "unknown"}
        /\ csv_result.type = "unknown" <=> Len(content) = 0
        /\ Len(content) > 0 =>
              /\ AllNumeric <=> csv_result.type \in {"integer", "float"}
              /\ (~AllNumeric /\ AllDateLike) <=> csv_result.type \in {"date", "datetime"}
              /\ (~AllNumeric /\ ~AllDateLike /\ AllBooleanWords)
                    <=> csv_result.type = "boolean"
              /\ (~AllNumeric /\ ~AllDateLike /\ ~AllBooleanWords)
                    <=> csv_result.type = "string"
              /\ csv_result.type = "string" =>
                    /\ DOMAIN csv_result.metadata = {"max_length"}
                    /\ \E i \in 1..Len(content) :
                          csv_result.metadata.max_length = Len(content[i])
                    /\ \A i \in 1..Len(content) :
                          csv_result.metadata.max_length >= Len(content[i])
              /\ (\A i \in 1..Len(content) : content[i] \in {<<"1">>, <<"0">>})
                    => csv_result.type = "integer"

\* the values "1" and "0", which the boolean test would pass too, are integer
W_C26_OneAndZeroAreInteger ==
    /\ pc = "inferred"
    /\ content = <<<<"1">>, <<"0">>>>
    /\ csv_result.type = "integer"

----------------------------------------------------------------------------
(* Properties of the CSV path under two budgets (specification SpecTruncation) *)

\* the smaller budget of the two detections
SmallBudget == requests[1].range[2] + 1

\* the first b characters of the body hold two complete lines, neither blank
HoldsHeaderAndSampleLine(b) ==
    LET prefix == SubSeq(content, 1, b)
        ends == {i \in 1..b : prefix[i] = "\n"}
    IN  /\ Cardinality(ends) >= 2
        /\ LET e1 == CHOOSE i \in ends : \A j \in ends : i <= j
                e2 == CHOOSE i \in ends \ {e1} : \A j \in ends \ {e1} : i <= j
            IN  /\ ~Blank(SubSeq(prefix, 1, e1 - 1))
                /\ ~Blank(SubSeq(prefix, e1 + 1, e2 - 1))

\* C19: when the smaller of two budgets still holds the complete header line
\* and a complete sample line, both detections return the same delimiter and
\* the same headers, and the smaller one has no more sample rows.
CX_C19_SmallerBudgetSameHeaders ==
    (pc = "detected_twice" /\ HoldsHeaderAndSampleLine(SmallBudget)) =>
        /\ csv_result.small.success
        /\ csv_result.large.success
        /\ csv_result.small.delimiter = csv_result.large.delimiter
        /\ csv_result.small.headers = csv_result.large.headers
        /\ csv_result.small.rows_sampled <= csv_result.large.rows_sampled

----------------------------------------------------------------------------
(* Properties of bulk detection (specification SpecBulk) *)

\* what detect_csv_headers alone returns for resource i, from the response
\* that its fetch got
StandAloneCsv(i) ==
    detect_csv_headers(file[i].id, None,
                       OutcomeOf(csv_seen[i], file[i].data, Request(file[i].id, csv_fetch_bytes)),
                       FALSE)

\* what detect_headers alone returns for the k-th tabular resource, from the
\* response that its fetch got
StandAloneHeaders(k) ==
    LET r == tabular_resources[k]
    IN  detect_headers(r.id, r.format,
                       OutcomeOf(csv_seen[k], r.data, Request(r.id, csv_fetch_bytes)),
                       OutcomeOf(xlsx_seen[k], r.data, Request(r.id, xlsx_fetch_bytes)),
                       r.data)

\* C23: bulk detection gives one result per resource, in the order of the
\* input, each equal to the stand-alone detection of that resource whatever
\* the order in which the fetches completed and whatever the other resources
\* did; the loop of detect_dataset_schemas adds resource_name and
\* download_url to each result and changes nothing else of it.
C23_BulkIsPerResourceInOrder ==
    /\ pc = "gathered" =>
          /\ Len(result) = Len(file)
          /\ \A i \in 1..Len(file) :
                result[i] = StandAloneCsv(i) /\ result[i].resource_id = file[i].id
    /\ pc = "looped" =>
          /\ Len(result.schemas) = Len(tabular_resources)
          /\ result.tabular_files = Len(tabular_resources)
          /\ \A k \in 1..Len(tabular_resources) :
                LET entry == result.schemas[k]
                    alone == StandAloneHeaders(k)
                IN  /\ DOMAIN entry = DOMAIN alone \cup {"resource_name", "download_url"}
                    /\ \A key \in DOMAIN alone : entry[key] = alone[key]
                    /\ entry.resource_name = tabular_resources[k].name
                    /\ entry.resource_id = tabular_resources[k].id

\* two resources gathered, the second fetch completed first, the first
\* detection failed and the second succeeded
W_C23_SecondFirstOneFailed ==
    /\ pc = "gathered"
    /\ parsed = <<2, 1>>
    /\ ~result[1].success
    /\ result[2].success

----------------------------------------------------------------------------
(* Properties of the detect_file_schema tools (specification SpecTool) *)

LookupFailed == xlsx_seen # NotSeen /\ "raised" \in DOMAIN get_resource(xlsx_seen)

\* C24: detect_file_schema never raises: no call ends with an exception, and
\* after a failed lookup of the format the call goes on with format "CSV".
CX_C24_ToolNeverRaises ==
    /\ pc # "raised"
    /\ (LookupFailed /\ pc \in {"detecting", "returned"}) => arg = CSV

----------------------------------------------------------------------------
(* Properties of ComtradeClient (specification SpecComtrade) *)

\* C25: a client's key is the non-empty argument of its construction, else
\* the environment variable as it was at construction, whatever the
\* environment is now; is_available answers whether that key is non-empty.
C25_KeyFromArgumentThenEnvironment ==
    /\ \A i \in 1..Len(file) :
          /\ NonEmpty(csv_seen[i].api_key) => file[i].api_key = csv_seen[i].api_key
          /\ ~NonEmpty(csv_seen[i].api_key) => file[i].api_key = csv_seen[i].environ
    /\ result # NoResult =>
          (result.available <=> (file[result.client].api_key \notin {None, ""}))

\* a client built without a key while the environment held "key-a"; the
\* environment holds "key-b" now; a second client was built with "key-b"
\* against "key-a"; is_available of the first client answered true
W_C25_EnvironmentChangedLater ==
    /\ Len(file) = 2
    /\ csv_seen[1] = [api_key |-> None, environ |-> "key-a"]
    /\ csv_seen[2] = [api_key |-> "key-b", environ |-> "key-a"]
    /\ content = "key-b"
    /\ result = [client |-> 1, available |-> TRUE]
    /\ file[1].api_key = "key-a"

----------------------------------------------------------------------------
(* Further properties of detect_headers (specification Spec) *)

\* C27: every successful result, of the CSV path and of the spreadsheet path
\* alike, carries partial_download together with bytes_fetched.
CX_C27_SuccessReportsPartial ==
    (pc = "returned" /\ result.success) =>
        {"partial_download", "bytes_fetched"} \subseteq DOMAIN result

\* the rows of a sheet that the result reports: the first six
ReportedRows(ws) == Slice(ws.rows, 0, 6)

\* the text the result gives for the cell j of the reported row r of a sheet
ReportedCell(entry, r, j) ==
    IF r = 1 THEN entry.headers[j] ELSE entry.sample_rows[r - 1][j]

\* C30: on the spreadsheet path a cell without a value is reported as the
\* empty string and every cell with a value, 0 and False included, as the
\* string form of the value.
CX_C30_CellReportedAsItsString ==
    (WholeWorkbookReceived /\ xlsx_result # NoResult /\ xlsx_result.success) =>
        \A k \in 1..Len(file.wb) :
            LET ws == file.wb[k]
            IN  ws.name \in DOMAIN xlsx_result.sheets =>
                  \A r \in 1..Len(ReportedRows(ws)) : \A j \in 1..Len(ws.rows[r]) :
                      ReportedCell(xlsx_result.sheets[ws.name], r, j)
                          = (IF ws.rows[r][j] = NoneCell THEN << >> ELSE str(ws.rows[r][j]))

----------------------------------------------------------------------------
(* Further properties of bulk detection (specification SpecBulk) *)

\* C28: for every resource that detect_dataset_schemas selects as tabular a
\* fetch is attempted and the result is not the "Unsupported format" failure.
CX_C28_SelectedFormatsSupported ==
    pc = "looped" =>
        \A k \in 1..Len(tabular_resources) :
            LET r == tabular_resources[k]
                entry == result.schemas[k]
            IN  /\ entry.success \/ entry.error[1] # "Unsupported format: "
                /\ \E q \in 1..Len(requests) :
                      requests[q].url = <<"https://edx.netl.doe.gov/resource/", r.id, "/download">>

----------------------------------------------------------------------------
(* Further properties of _parse_csv_content (specification SpecCsv) *)

\* line.split(d) for a one-character d
RECURSIVE SplitBy(_, _)
SplitBy(line, d) ==
    IF \A i \in 1..Len(line) : line[i] # d THEN <<line>>
    ELSE LET at == Min({i \in 1..Len(line) : line[i] = d})
         IN  <<SubSeq(line, 1, at - 1)>> \o SplitBy(SubSeq(line, at + 1, Len(line)), d)

\* C29: with automatic detection the line the delimiter is detected on is the
\* line that becomes the header row: the headers of a successful result are
\* that line (when it holds no quote) split by the detected delimiter.
CX_C29_DetectionLineIsHeaderRow ==
    (pc = "parsed" /\ arg = <<None>> /\ csv_result.success) =>
        LET line == FirstLine(strip(content))
        IN  /\ csv_result.delimiter = _detect_delimiter(line)
            /\ (\A i \in 1..Len(line) : line[i] \notin {QUOTECHAR, "\r"}) =>
                  csv_result.headers = SplitBy(line, csv_result.delimiter)

====
